---- MODULE Spec2Model ----
(***************************************************************************)
(* Hydraulic erosion of a height map (src/src/erosion.rs, with the older   *)
(* stand-alone variant of src/src/main.rs where it differs).               *)
(*                                                                         *)
(* Numbers.  The program computes in f32.  The model computes in fixed     *)
(* point:                                                                  *)
(*   - a droplet's vel, water and sediment, and every amount handed to     *)
(*     Elevation::add, are integers counting 1/Q;                          *)
(*   - the heights of Elevation.data are integers counting 1/F, F = 20*Q,  *)
(*     so that the weights 0.4, 0.1 and 0.05 of Elevation::add are the     *)
(*     integers 8, 2 and 1 and add is computed without rounding;           *)
(*   - positions and directions are pairs of integers counting 1/P of a    *)
(*     cell, or NaNVec, the vector glam's normalize returns for (0, 0).    *)
(* Every product that f32 would round is rounded down to the grid.         *)
(***************************************************************************)
EXTENDS Integers, Sequences, FiniteSets, TLC

VARIABLES
    data,       \* Elevation.data, row of SIZE*SIZE heights (0-based function)
    droplets,   \* the Droplet entities, in the order a query iterates them
    sources,    \* the Source entities
    nextId,     \* the next Entity id
    ran,        \* the systems that have run in the current tick
    cmds,       \* Commands queued by each system, applied at the end of the tick
    tick,       \* number of completed ticks
    log,        \* what hydrolic_erosion did to each droplet in the current tick
    doomed,     \* droplets whose water was below EPSILON when the last tick ended
    call,       \* the last call made on the Elevation interface
    rained,     \* droplets spawned by rain so far
    systems     \* the systems the app was built with

vars == <<data, droplets, sources, nextId, ran, cmds, tick, log, doomed, call, rained, systems>>

----------------------------------------------------------------------------
(* Bounds of the model *)

\* side of the grid (the program's SIZE is 600)
SIZE == 3
\* ticks after which the simulation is stopped
MaxTicks == 50
\* droplets spawned by rain over a run
MaxRain == 1
\* positions tried for a source at startup
MaxTries == 1
\* largest |amount| handed to Elevation::add through the interface, in 1/Q
MaxAmount == 2
\* how far outside the grid the probed positions lie, in cells
MaxOut == 2

----------------------------------------------------------------------------
(* Fixed point *)

Q == 100
F == 20 * Q
P == 10

\* erosion.rs:8-13; the fractions are in hundredths
EVAPORATION == 5
INERTIA == 10
MINSLOPE == 0
CAPACITY == 800
DEPOSITION == 10
EROSION == 1

Abs(a) == IF a < 0 THEN -a ELSE a
Min(a, b) == IF a < b THEN a ELSE b
Max(a, b) == IF a > b THEN a ELSE b

\* a / b rounded toward zero, as an `as usize` cast and integer formats round
TruncDiv(a, b) == IF a >= 0 THEN a \div b ELSE -((-a) \div b)

\* a / b rounded to the nearest integer
RoundDiv(a, b) == IF a >= 0 THEN (2 * a + b) \div (2 * b) ELSE -((2 * (-a) + b) \div (2 * b))

RECURSIVE SqrtIter(_, _)
SqrtIter(n, r) ==
    LET s == (r + n \div r) \div 2
    IN  IF s >= r THEN r ELSE SqrtIter(n, s)

\* floor of the square root of n >= 0 (f32::sqrt on the fixed-point grid)
ISqrt(n) == IF n <= 0 THEN 0 ELSE SqrtIter(n, n)

----------------------------------------------------------------------------
(* Vec2 *)

NaNVec == <<>>
IsNaN(v) == v = NaNVec

Vec2Default == <<0, 0>>

\* Vec2 + Vec2; NaN is absorbing
VAdd(a, b) == IF IsNaN(a) \/ IsNaN(b) THEN NaNVec ELSE <<a[1] + b[1], a[2] + b[2]>>

\* scale of w before its length is taken, so that the squares stay in range
Shrink(w) == Max(Abs(w[1]), Abs(w[2])) \div 16384 + 1

\* Vec2::normalize of w (any scale), as a direction in 1/P: w * (1 / |w|).
\* For w = (0, 0) the reciprocal is infinite and 0 * inf is NaN in both components.
Normalize(w) ==
    IF IsNaN(w) \/ w = <<0, 0>> THEN NaNVec
    ELSE LET k == Shrink(w)
             x == TruncDiv(w[1], k)
             y == TruncDiv(w[2], k)
             len == ISqrt(x * x + y * y)
         IN  <<RoundDiv(x * P, len), RoundDiv(y * P, len)>>

----------------------------------------------------------------------------
(* unroll *)

\* one axis of unroll: the comparisons are both false for NaN, and NaN as usize is 0
AxisNoClampHigh(c, size) ==
    IF c < 0 THEN 0 ELSE c \div P

Axis(c, size) ==
    IF c < 0 THEN 0
    ELSE IF c >= size * P THEN size - 1
    ELSE c \div P

Unroll(pos, size) ==
    IF IsNaN(pos) THEN 0
    ELSE (Axis(pos[1], size) % size) + (Axis(pos[2], size) * size)

----------------------------------------------------------------------------
(* Elevation *)

DataLen(size) == size * size
Cells(size) == 0 .. (DataLen(size) - 1)

\* the seeds the noise is drawn with (Fbm::new().set_seed(rand::random()))
Seeds == 0 .. 6

\* sqrt(u*u + v*v) in 1/F for u = 2x/size - 1, v = 2y/size - 1
Radial(x, y, size) ==
    ISqrt(((2 * x - size) * (2 * x - size) + (2 * y - size) * (2 * y - size)) * F * F) \div size

\* the noise field of each seed, before it is cut to the range of the noise
Field(seed, x, y, size) ==
    CASE seed = 0 -> 0
      [] seed = 1 -> Radial(x, y, size) - (F \div 2)
      [] seed = 2 -> Radial(x, y, size) - (F \div 2) + (F \div 20) + 3 * (F \div 20) * x
      [] seed = 3 -> IF x = 1 /\ y = 1 THEN F ELSE Radial(x, y, size) - F
      [] seed = 5 -> Radial(x, y, size) - (F \div 2) - (F \div 10) + (F \div 5) * x
      [] seed = 6 -> Radial(x, y, size) - (F \div 2) + (F \div 10) * x
      [] OTHER    -> Radial(x, y, size) - (F \div 2) + (F \div 25) * Abs(x - 1)

\* noise.get([u, v]) in 1/F at the sample point of (x, y): the value of an
\* external noise library, within [-1, 1]; each seed is one noise field
NoiseAt(seed, x, y, size) == Max(-F, Min(F, Field(seed, x, y, size)))

\* the closure of Elevation::new: noise(u, v) - sqrt(u*u + v*v) + 0.5
Height(seed, x, y, size) == NoiseAt(seed, x, y, size) - Radial(x, y, size) + (F \div 2)

\* Elevation::new: iproduct!(0..size, 0..size) yields (x, y) with y running
\* fastest, and collect() stores them in that order: entry x*size + y
New(size, seed) ==
    [k \in Cells(size) |-> Height(seed, k \div size, k % size, size)]

\* Elevation::grad, the index after the column test (usize arithmetic: a
\* negative value here is an underflow)
GradColNoShift(i, size) == i

GradCol(i, size) == IF i % size = size - 1 THEN i - 1 ELSE i

\* the index after the row test: the top-left cell of the 2x2 window
GradWindow(i, size) ==
    LET c == GradCol(i, size)
    IN  IF c + size >= DataLen(size) THEN c - size ELSE c

\* the four indices grad reads
GradReads(i, size) ==
    LET w == GradWindow(i, size)
    IN  {w, w + 1, w + size, w + 1 + size}

\* twice the gradient, in 1/F per cell, from the window at w
Slope(d, w, size) ==
    << (d[w + 1] - d[w]) + (d[w + 1 + size] - d[w + size]),
       (d[w + size] - d[w]) + (d[w + 1 + size] - d[w + 1]) >>

\* Elevation::grad of erosion.rs; an index outside data panics
Grad(d, i, size) ==
    IF GradReads(i, size) \subseteq DOMAIN d
    THEN Slope(d, GradWindow(i, size), size)
    ELSE "panic"

\* Elevation::grad of main.rs: no read at all when the window would leave data
GradMainReads(pos, size) ==
    LET i == Unroll(pos, size)
    IN  IF i + 1 + size >= DataLen(size) THEN {} ELSE {i, i + 1, i + size, i + 1 + size}

GradMain(d, pos, size) ==
    IF GradMainReads(pos, size) = {} THEN Vec2Default
    ELSE IF GradMainReads(pos, size) \subseteq DOMAIN d
    THEN Slope(d, Unroll(pos, size), size)
    ELSE "panic"

\* the weights with a tenth on the diagonal offsets too: they sum to 1.2
WeightTenthCorners(dx, dy) == IF Abs(dx) + Abs(dy) = 0 THEN 8 ELSE 2

\* the weight of Elevation::add for the offset (dx, dy), in twentieths
Weight(dx, dy) ==
    LET dist == Abs(dx) + Abs(dy)
    IN  IF dist = 2 THEN 1 ELSE IF dist = 1 THEN 2 ELSE 8

\* the cell add updates for the offset (dx, dy)
Target(pos, dx, dy, size) == Unroll(VAdd(pos, <<dx * P, dy * P>>), size)

\* the weight add puts on cell k for the offset (dx, dy); an offset whose
\* position lies outside the grid is dropped in the variant without clamping
ShareNoClamp(pos, k, dx, dy, size) ==
    LET q == VAdd(pos, <<dx * P, dy * P>>)
    IN  IF /\ ~IsNaN(q)
           /\ q[1] >= 0 /\ q[1] < size * P /\ q[2] >= 0 /\ q[2] < size * P
           /\ Unroll(q, size) = k
        THEN Weight(dx, dy) ELSE 0

Share(pos, k, dx, dy, size) ==
    IF Target(pos, dx, dy, size) = k THEN Weight(dx, dy) ELSE 0

\* the total weight the nine offsets put on cell k
WeightOn(pos, k, size) ==
      Share(pos, k, -1, -1, size) + Share(pos, k, -1, 0, size) + Share(pos, k, -1, 1, size)
    + Share(pos, k, 0, -1, size)  + Share(pos, k, 0, 0, size)  + Share(pos, k, 0, 1, size)
    + Share(pos, k, 1, -1, size)  + Share(pos, k, 1, 0, size)  + Share(pos, k, 1, 1, size)

\* Elevation::add(pos, v), v in 1/Q: v * weight / 20 is v * weight in 1/F
Add(d, pos, v, size) == [k \in DOMAIN d |-> d[k] + v * WeightOn(pos, k, size)]

RECURSIVE SumUpTo(_, _)
SumUpTo(d, n) == IF n < 0 THEN 0 ELSE d[n] + SumUpTo(d, n - 1)

\* the sum of all heights, in 1/F
Total(d) == SumUpTo(d, DataLen(SIZE) - 1)

----------------------------------------------------------------------------
(* Source and Droplet *)

\* Source::new; flux is the fraction fluxNum / fluxDen and stock counts 1/fluxDen.
\* calls and emitted are history: the calls of flow() and the drops they returned
SourceNew(pos, num, den) ==
    [pos |-> pos, fluxNum |-> num, fluxDen |-> den, stock |-> 0, calls |-> 0, emitted |-> 0]

\* the value flow() returns: floor(stock + flux)
FlowDrops(s) == (s.stock + s.fluxNum) \div s.fluxDen

\* the stock flow() leaves when it forgets to take the drops out
FlowStockKeep(s) == s.stock + s.fluxNum

\* the stock flow() leaves
FlowStock(s) == (s.stock + s.fluxNum) - FlowDrops(s) * s.fluxDen

\* Source::flow
Flow(s) ==
    [s EXCEPT !.stock = FlowStock(s), !.calls = @ + 1, !.emitted = @ + FlowDrops(s)]

\* Droplet::new, as the entity id
DropletNew(id, pos) ==
    [id |-> id, pos |-> pos, dir |-> Vec2Default, vel |-> 0, water |-> Q, sediment |-> 0]

----------------------------------------------------------------------------
(* hydrolic_erosion, for one droplet *)

\* the vector handed to normalize, dir * INERTIA * vel - g * (1 - INERTIA * vel),
\* times 200 * Q * F (normalize does not depend on the scale); g2 is twice g
Blend(dir, vel, g2) ==
    IF IsNaN(dir) THEN NaNVec
    ELSE << ((2 * F) \div P) * dir[1] * INERTIA * vel - g2[1] * (100 * Q - INERTIA * vel),
            ((2 * F) \div P) * dir[2] * INERTIA * vel - g2[2] * (100 * Q - INERTIA * vel) >>

\* hdif, in 1/Q, from the two heights in 1/F
HeightDrop(hOld, hNew) == (hOld - hNew) \div (F \div Q)

\* max(hdif, MINSLOPE) * vel * water * CAPACITY, in 1/Q
Capacity(hdif, vel, water) ==
    (((Max(hdif, MINSLOPE) * vel * water) \div Q) * CAPACITY) \div Q

\* -cdif * DEPOSITION
DepositAmount(cdif) == ((-cdif) * DEPOSITION) \div 100

\* the erosion amount without the cap by hdif
ErosionAmountNoCap(cdif, hdif) == (cdif * EROSION) \div 100

\* f32::min(cdif * EROSION, hdif)
ErosionAmount(cdif, hdif) == Min((cdif * EROSION) \div 100, hdif)

\* (vel^2 + hdif).max(0).sqrt()
NewVel(vel, hdif) == ISqrt(Max(vel * vel + hdif * Q, 0))

\* water * (1 - EVAPORATION * (1 - vel)) of erosion.rs
NewWater(water, vel) == (water * (100 * Q - EVAPORATION * (Q - vel))) \div (100 * Q)

\* water * (1 - EVAPORATION) of main.rs
NewWaterMain(water, vel) == (water * (100 - EVAPORATION)) \div 100

\* The body of the loop of hydrolic_erosion for droplet dr on heights d, one
\* statement after the other; each stage adds the values it computes to the
\* record of the step.

\* let g = elevation.grad(unroll(droplet.pos, SIZE)), and the vector normalized
StepArg(d, dr) ==
    [d |-> d, dr |-> dr,
     arg |-> Blend(dr.dir, dr.vel, Grad(d, Unroll(dr.pos, SIZE), SIZE))]

\* droplet.dir = (...).normalize()
StepDir(t) == t @@ [dir |-> Normalize(t.arg)]

\* droplet.pos = droplet.pos + droplet.dir
StepPos(t) == t @@ [pos |-> VAdd(t.dr.pos, t.dir)]

\* let h = elevation.data[unroll(droplet.pos, SIZE)]
StepH(t) == t @@ [h |-> t.d[Unroll(t.pos, SIZE)]]

\* let hdif = elevation.data[unroll(old_pos, SIZE)] - h
StepHdif(t) == t @@ [hdif |-> HeightDrop(t.d[Unroll(t.dr.pos, SIZE)], t.h)]

\* let cdif = max(hdif, MINSLOPE) * vel * water * CAPACITY - sediment
StepCdif(t) == t @@ [cdif |-> Capacity(t.hdif, t.dr.vel, t.dr.water) - t.dr.sediment]

\* the branch without the test of h: cdif >= 0 always erodes
BranchOfNoGate(cdif, h) == IF cdif < 0 THEN "deposit" ELSE "erode"

\* if cdif < 0. { deposit } else if h >= 0. { erode }
BranchOf(cdif, h) == IF cdif < 0 THEN "deposit" ELSE IF h >= 0 THEN "erode" ELSE "none"

StepBranch(t) == t @@ [branch |-> BranchOf(t.cdif, t.h)]

\* let deposit = ..., let erosion = ...
StepAmount(t) ==
    t @@ [amount |-> CASE t.branch = "deposit" -> DepositAmount(t.cdif)
                       [] t.branch = "erode"   -> ErosionAmount(t.cdif, t.hdif)
                       [] OTHER                -> 0]

\* droplet.vel = ...
StepVel(t) == t @@ [vel |-> NewVel(t.dr.vel, t.hdif)]

\* elevation.add(old_pos, deposit) or elevation.add(old_pos, -erosion)
StepData(t) ==
    t @@ [data |-> CASE t.branch = "deposit" -> Add(t.d, t.dr.pos, t.amount, SIZE)
                     [] t.branch = "erode"   -> Add(t.d, t.dr.pos, -t.amount, SIZE)
                     [] OTHER                -> t.d]

\* droplet.sediment = ... and droplet.water = ...: the droplet and the heights
\* the step leaves, and the record of the step (removed: what the heights lost,
\* touched: the cells whose height changed)
StepEnd(t) ==
    [ droplet |-> [id |-> t.dr.id, pos |-> t.pos, dir |-> t.dir, vel |-> t.vel,
                   water |-> NewWater(t.dr.water, t.vel),
                   sediment |-> CASE t.branch = "deposit" -> t.dr.sediment - t.amount
                                  [] t.branch = "erode"   -> t.dr.sediment + t.amount
                                  [] OTHER                -> t.dr.sediment],
      data    |-> t.data,
      rec     |-> [id |-> t.dr.id, before |-> t.dr, arg |-> t.arg, h |-> t.h,
                   hOld |-> t.d[Unroll(t.dr.pos, SIZE)],
                   hdif |-> t.hdif, cdif |-> t.cdif, branch |-> t.branch,
                   amount |-> t.amount, removed |-> Total(t.d) - Total(t.data),
                   touched |-> {k \in DOMAIN t.d : t.d[k] # t.data[k]}] ]

Step(d, dr) ==
    StepEnd(StepData(StepVel(StepAmount(StepBranch(StepCdif(StepHdif(StepH(StepPos(
        StepDir(StepArg(d, dr)))))))))))

\* the loop of hydrolic_erosion over the droplets ds[i..], each on the heights
\* the droplets before it left
RECURSIVE Erode(_, _, _)
Erode(d, ds, i) ==
    IF i > Len(ds) THEN [data |-> d, droplets |-> <<>>, log |-> {}]
    ELSE LET one  == Step(d, ds[i])
             rest == Erode(one.data, ds, i + 1)
         IN  [data |-> rest.data,
              droplets |-> <<one.droplet>> \o rest.droplets,
              log |-> {one.rec} \cup rest.log]

----------------------------------------------------------------------------
(* The app: Erosion::build and its systems *)

\* f32::EPSILON, the resolution of a droplet's water: one unit of 1/Q
EPSILON == 1
\* rain: for _ in 0..5
RAIN_DROPS == 5
\* setup_elevation: for _ in 0..400
SOURCE_TRIES == 400
\* setup_elevation: Source::new(pos, 0.01), as a fraction
FLUX_NUM == 1
FLUX_DEN == 100
\* setup_elevation: elevation.data[..] > 0.3, in tenths
SOURCE_LEVEL == 3

\* Erosion::build: the systems of the update stage, which states no order
ErosionSystems == {"rain", "flows", "evaporation", "hydrolic_erosion"}

\* rand_pos(): a point of [0, SIZE) x [0, SIZE); the model draws the centre of
\* cell (1, 1) or of one of its four neighbours
RandPositions ==
    {<<c[1] * P + P \div 2, c[2] * P + P \div 2>> :
        c \in {b \in (0 .. 2) \X (0 .. 2) : b[1] = 1 \/ b[2] = 1}}

NoCommands == [rain |-> <<>>, flows |-> <<>>, evap |-> {}]

NoCall == [op |-> "none", n |-> 0]

\* setup_elevation: the sources kept among the positions tried
SetupSources(d, tries) ==
    LET kept == SelectSeq(tries, LAMBDA q : 10 * d[Unroll(q, SIZE)] > SOURCE_LEVEL * F)
    IN  [j \in 1 .. Len(kept) |-> SourceNew(kept[j], FLUX_NUM, FLUX_DEN)]

\* the state after the startup system setup_elevation
Init ==
    \E seed \in Seeds, tries \in [1 .. Min(SOURCE_TRIES, MaxTries) -> RandPositions] :
        /\ data = New(SIZE, seed)
        /\ sources = SetupSources(New(SIZE, seed), tries)
        /\ droplets = <<>>
        /\ nextId = 0
        /\ ran = {}
        /\ cmds = NoCommands
        /\ tick = 0
        /\ log = {}
        /\ doomed = {}
        /\ call = NoCall
        /\ rained = 0
        /\ systems = ErosionSystems

\* a system of the stage that has not run in this tick may run now
CanRun(sys) == sys \in systems /\ sys \notin ran /\ tick < MaxTicks

\* rain: queue the spawn of RAIN_DROPS droplets at random positions
Rain ==
    /\ CanRun("rain")
    /\ \E ps \in [1 .. Min(RAIN_DROPS, MaxRain - rained) -> RandPositions] :
        /\ cmds' = [cmds EXCEPT !.rain = ps]
        /\ rained' = rained + Len(ps)
    /\ ran' = ran \cup {"rain"}
    /\ UNCHANGED <<data, droplets, sources, nextId, tick, log, doomed, call, systems>>

\* the positions flows queues a spawn at: drops times the position of each source
RECURSIVE FlowSpawns(_, _)
FlowSpawns(ss, i) ==
    IF i > Len(ss) THEN <<>>
    ELSE [j \in 1 .. FlowDrops(ss[i]) |-> ss[i].pos] \o FlowSpawns(ss, i + 1)

\* flows: every source flows, and a droplet is queued for each drop
Flows ==
    /\ CanRun("flows")
    /\ sources' = [j \in 1 .. Len(sources) |-> Flow(sources[j])]
    /\ cmds' = [cmds EXCEPT !.flows = FlowSpawns(sources, 1)]
    /\ ran' = ran \cup {"flows"}
    /\ UNCHANGED <<data, droplets, nextId, tick, log, doomed, call, rained, systems>>

\* the droplets evaporation queues a despawn for
Dried(ds) == {ds[j].id : j \in {k \in 1 .. Len(ds) : ds[k].water < EPSILON}}

\* evaporation
Evaporation ==
    /\ CanRun("evaporation")
    /\ cmds' = [cmds EXCEPT !.evap = Dried(droplets)]
    /\ ran' = ran \cup {"evaporation"}
    /\ UNCHANGED <<data, droplets, sources, nextId, tick, log, doomed, call, rained, systems>>

\* hydrolic_erosion: the loop over every droplet
HydrolicErosion ==
    /\ CanRun("hydrolic_erosion")
    /\ LET r == Erode(data, droplets, 1)
       IN  /\ data' = r.data
           /\ droplets' = r.droplets
           /\ log' = r.log
    /\ ran' = ran \cup {"hydrolic_erosion"}
    /\ UNCHANGED <<sources, nextId, cmds, tick, doomed, call, rained, systems>>

\* the end of the stage: the queued commands are applied, in the order the
\* systems were added (rain, flows, evaporation), and the tick is over
EndTick ==
    /\ ran = systems
    /\ tick < MaxTicks
    /\ LET at    == cmds.rain \o cmds.flows
           fresh == [j \in 1 .. Len(at) |-> DropletNew(nextId + j - 1, at[j])]
       IN  /\ droplets' = SelectSeq(droplets \o fresh, LAMBDA dr : dr.id \notin cmds.evap)
           /\ nextId' = nextId + Len(at)
    /\ doomed' = Dried(droplets)
    /\ cmds' = NoCommands
    /\ ran' = {}
    /\ log' = {}
    /\ tick' = tick + 1
    /\ UNCHANGED <<data, sources, call, rained, systems>>

Next == Rain \/ Flows \/ Evaporation \/ HydrolicErosion \/ EndTick

Spec == Init /\ [][Next]_vars

----------------------------------------------------------------------------
(* The Elevation interface on its own: new, then one call of unroll, grad or
   add with any argument *)

\* coordinates probed, in 1/P: every half cell from MaxOut cells before the
\* grid to MaxOut cells after it
ProbeCoords ==
    {c \in (-(MaxOut * P)) .. ((SIZE + MaxOut) * P) : c % (P \div 2) = 0}

\* positions probed: inside the grid, on its edges, outside it, and NaN
ProbePositions == (ProbeCoords \X ProbeCoords) \cup {NaNVec}

\* amounts probed, in 1/Q
ProbeAmounts == (-MaxAmount) .. MaxAmount

InitElev ==
    \E seed \in Seeds :
        /\ data = New(SIZE, seed)
        /\ call = [op |-> "new", n |-> 0, seed |-> seed]
        /\ sources = <<>>
        /\ droplets = <<>>
        /\ nextId = 0
        /\ ran = {}
        /\ cmds = NoCommands
        /\ tick = 0
        /\ log = {}
        /\ doomed = {}
        /\ rained = 0
        /\ systems = {}

ElevFrame == <<droplets, sources, nextId, ran, cmds, tick, log, doomed, rained, systems>>

CallUnroll(pos) ==
    /\ call.op = "new"
    /\ call' = [op |-> "unroll", n |-> call.n + 1, pos |-> pos, ret |-> Unroll(pos, SIZE)]
    /\ UNCHANGED <<data, ElevFrame>>

CallGrad(i) ==
    /\ call.op = "new"
    /\ call' = [op |-> "grad", n |-> call.n + 1, i |-> i,
                col |-> GradCol(i, SIZE), window |-> GradWindow(i, SIZE),
                reads |-> GradReads(i, SIZE), ret |-> Grad(data, i, SIZE)]
    /\ UNCHANGED <<data, ElevFrame>>

CallGradMain(pos) ==
    /\ call.op = "new"
    /\ call' = [op |-> "grad_main", n |-> call.n + 1, pos |-> pos,
                reads |-> GradMainReads(pos, SIZE), ret |-> GradMain(data, pos, SIZE)]
    /\ UNCHANGED <<data, ElevFrame>>

CallAdd(pos, v) ==
    /\ call.op = "new"
    /\ data' = Add(data, pos, v, SIZE)
    /\ call' = [op |-> "add", n |-> call.n + 1, pos |-> pos, v |-> v, before |-> data]
    /\ UNCHANGED ElevFrame

NextElev ==
    \/ \E pos \in ProbePositions : CallUnroll(pos)
    \/ \E i \in Cells(SIZE) : CallGrad(i)
    \/ \E pos \in ProbePositions : CallGradMain(pos)
    \/ \E pos \in ProbePositions, v \in ProbeAmounts : CallAdd(pos, v)

SpecElev == InitElev /\ [][NextElev]_vars

----------------------------------------------------------------------------
(* The sources on their own: an app with the flows system only, and sources of
   any flux *)

\* the fluxes of the sources, as fractions
Fluxes ==
    { [num |-> 0, den |-> 1], [num |-> FLUX_NUM, den |-> FLUX_DEN], [num |-> 1, den |-> 3],
      [num |-> 2, den |-> 3], [num |-> 1, den |-> 1], [num |-> 5, den |-> 2] }

SourcePositions == {<<P \div 2, P \div 2>>, <<P + P \div 2, P \div 2>>}

InitSource ==
    \E n \in 1 .. 2 :
    \E ps \in [1 .. n -> SourcePositions], fs \in [1 .. n -> Fluxes] :
        /\ sources = [j \in 1 .. n |-> SourceNew(ps[j], fs[j].num, fs[j].den)]
        /\ data = New(SIZE, 0)
        /\ droplets = <<>>
        /\ nextId = 0
        /\ ran = {}
        /\ cmds = NoCommands
        /\ tick = 0
        /\ log = {}
        /\ doomed = {}
        /\ call = NoCall
        /\ rained = 0
        /\ systems = {"flows"}

NextSource == Flows \/ EndTick

SpecSource == InitSource /\ [][NextSource]_vars

----------------------------------------------------------------------------
(* The claims *)

\* the droplets of the pool
Pool == {droplets[j] : j \in 1 .. Len(droplets)}

\* the droplet of the pool a record of the log is about
After(r) == CHOOSE dr \in Pool : dr.id = r.id

\* C1: one application of the erosion step never increases a droplet's water,
\* whatever its velocity, and water stays within (0, 1] (here: 0 .. Q in 1/Q,
\* the lower end being the resolution of the fixed point).
C1_WaterNeverIncreases ==
    \A r \in log :
        /\ After(r).water <= r.before.water
        /\ After(r).water <= Q
        /\ After(r).water >= 0

\* C2: a droplet whose water is below EPSILON after the erosion step of a tick
\* is absent from the pool in the next tick and is not advanced by that tick's
\* erosion step, whatever the order of the systems within a tick.
C2_DriedDropletAbsentNextTick ==
    /\ \A dr \in Pool : dr.id \notin doomed
    /\ \A r \in log : r.id \notin doomed

\* the cells add may touch: the targets of the nine offsets
Neighbourhood(pos) ==
    {Target(pos, dx, dy, SIZE) : dx \in {-1, 0, 1}, dy \in {-1, 0, 1}}

\* the position lies in a cell that has all eight neighbours
Interior(pos) ==
    /\ ~IsNaN(pos)
    /\ pos[1] >= P /\ pos[1] < (SIZE - 1) * P
    /\ pos[2] >= P /\ pos[2] < (SIZE - 1) * P

\* C3: for any call add(pos, v) the height changes sum to v exactly (20 * v in
\* 1/F), at interior, edge, corner and out-of-grid positions alike, no cell
\* outside the clamped 3x3 neighbourhood changes, and at an interior position
\* the centre gets 0.4 v, an orthogonal neighbour 0.1 v and a diagonal 0.05 v.
C3_AddConservesAmount ==
    call.op = "add" =>
        /\ Total(data) - Total(call.before) = (F \div Q) * call.v
        /\ \A k \in Cells(SIZE) :
               k \notin Neighbourhood(call.pos) => data[k] = call.before[k]
        /\ Interior(call.pos) =>
               \A dx \in {-1, 0, 1}, dy \in {-1, 0, 1} :
                   LET k == Target(call.pos, dx, dy, SIZE)
                   IN  data[k] - call.before[k] = call.v * Weight(dx, dy)

\* C3 witness: an amount was added at a position outside the grid, beyond a corner
C3_Witness ==
    /\ call.op = "add"
    /\ call.v # 0
    /\ ~IsNaN(call.pos)
    /\ call.pos[1] >= SIZE * P
    /\ call.pos[2] < 0
    /\ data[SIZE - 1] - call.before[SIZE - 1] = 20 * call.v

\* C4: the sediment a droplet carries is never negative.
C4_SedimentNonNegative == \A dr \in Pool : dr.sediment >= 0

\* C5: in the erosion branch the amount taken from the grid is
\* min(cdif * EROSION, hdif): the grid loses exactly that amount, and it never
\* exceeds hdif, the drop from the old position's height to the new one's.
C5_ErosionBoundedByHeightDrop ==
    \A r \in log :
        r.branch = "erode" =>
            /\ r.cdif >= 0 /\ r.h >= 0
            /\ r.removed = (F \div Q) * r.amount
            /\ After(r).sediment = r.before.sediment + r.amount
            /\ r.amount <= r.hdif
            /\ (F \div Q) * r.amount <= r.hOld - r.h

\* C5 witness: a droplet eroded a positive amount, capped by the height drop
C5_Witness ==
    \E r \in log :
        /\ r.branch = "erode"
        /\ r.amount > 0
        /\ r.amount = r.hdif
        /\ (r.cdif * EROSION) \div 100 > r.hdif

\* C6: for every index i of the grid, grad reads only indices inside data: on
\* the rightmost column the window is shifted one cell left, on the bottom row
\* one row up, and the index arithmetic never goes below 0 (main.rs's grad
\* reads inside data too).
C6_GradReadsInside ==
    /\ call.op = "grad" =>
        /\ call.col >= 0 /\ call.window >= 0
        /\ call.reads \subseteq Cells(SIZE)
        /\ call.ret # "panic"
        /\ call.window % SIZE = Min(call.i % SIZE, SIZE - 2)
        /\ call.window \div SIZE = Min(call.i \div SIZE, SIZE - 2)
    /\ call.op = "grad_main" =>
        /\ call.reads \subseteq Cells(SIZE)
        /\ call.ret # "panic"

\* C6 witness: grad was called on the bottom-right corner
C6_Witness ==
    /\ call.op = "grad"
    /\ call.i = SIZE * SIZE - 1
    /\ call.window = call.i - 1 - SIZE

\* C7: unroll maps x < 0 to column 0, x >= size to column size - 1 and any
\* other x to column trunc(x), likewise y and the row, returns column + row *
\* size, and the index is inside the grid for every position.
C7_UnrollClamps ==
    call.op = "unroll" =>
        /\ call.ret \in Cells(SIZE)
        /\ ~IsNaN(call.pos) =>
            LET x == call.pos[1]
                y == call.pos[2]
                col == IF x < 0 THEN 0 ELSE IF x >= SIZE * P THEN SIZE - 1 ELSE TruncDiv(x, P)
                row == IF y < 0 THEN 0 ELSE IF y >= SIZE * P THEN SIZE - 1 ELSE TruncDiv(y, P)
            IN  call.ret = col + row * SIZE

\* C7 witness: unroll was called far outside the grid, right of it and above it
C7_Witness ==
    /\ call.op = "unroll"
    /\ ~IsNaN(call.pos)
    /\ call.pos[1] = (SIZE + MaxOut) * P
    /\ call.pos[2] = -(MaxOut * P)
    /\ call.ret = SIZE - 1

\* the droplets spawned or queued at position q
SpawnedAt(q) ==
    Cardinality({j \in 1 .. Len(droplets) : droplets[j].pos = q})
    + Cardinality({j \in 1 .. Len(cmds.flows) : cmds.flows[j] = q})

RECURSIVE EmittedAt(_, _)
\* the drops flow() returned to the sources ss[i..] that lie at position q
EmittedAt(q, i) ==
    IF i > Len(sources) THEN 0
    ELSE (IF sources[i].pos = q THEN sources[i].emitted ELSE 0) + EmittedAt(q, i + 1)

\* C8: after any number T of flow() calls on a source of flux f >= 0 whose
\* stock started at 0, 0 <= stock < 1 and the drops returned total floor(f*T)
\* or ceil(f*T); flows spawns exactly that many droplets at the source's position.
C8_SourceFlowAccuracy ==
    /\ \A j \in 1 .. Len(sources) :
        LET s == sources[j]
            lo == (s.fluxNum * s.calls) \div s.fluxDen
            hi == (s.fluxNum * s.calls + s.fluxDen - 1) \div s.fluxDen
        IN  /\ 0 <= s.stock /\ s.stock < s.fluxDen
            /\ s.emitted \in {lo, hi}
            /\ SpawnedAt(s.pos) = EmittedAt(s.pos, 1)
    /\ Len(droplets) + Len(cmds.flows) = EmittedAt(sources[1].pos, 1)
                                          + (IF Len(sources) > 1 /\ sources[2].pos # sources[1].pos
                                             THEN EmittedAt(sources[2].pos, 1) ELSE 0)

\* C8 witness: a source of fractional flux has flowed many times, holds a
\* fractional stock and its droplets are in the pool
C8_Witness ==
    \E j \in 1 .. Len(sources) :
        /\ sources[j].fluxNum = 2 /\ sources[j].fluxDen = 3
        /\ sources[j].calls = 10
        /\ sources[j].emitted = 6
        /\ sources[j].stock = 2
        /\ SpawnedAt(sources[j].pos) >= 6

\* C9: when the vector handed to normalize is the zero vector, the droplet's
\* direction is left unchanged, and no NaN direction or position is produced
\* or carried into later steps.
C9_ZeroVectorKeepsDirection ==
    /\ \A r \in log : r.arg = <<0, 0>> => After(r).dir = r.before.dir
    /\ \A dr \in Pool : ~IsNaN(dr.dir) /\ ~IsNaN(dr.pos)

\* C10: after Elevation::new(N, noise), data has N*N entries and the entry at
\* x + y*N, the index unroll gives column x and row y, is
\* noise(u, v) - sqrt(u*u + v*v) + 0.5 for u = 2x/N - 1, v = 2y/N - 1.
C10_NewIsRowMajor ==
    call.op = "new" =>
        /\ DOMAIN data = Cells(SIZE)
        /\ \A x \in 0 .. (SIZE - 1), y \in 0 .. (SIZE - 1) :
               data[Unroll(<<x * P, y * P>>, SIZE)] = Height(call.seed, x, y, SIZE)

RECURSIVE Carried(_, _)
Carried(ds, i) == IF i > Len(ds) THEN 0 ELSE ds[i].sediment + Carried(ds, i + 1)

\* the total mass, in 1/F: the heights and the sediment of the live droplets
Mass == Total(data) + (F \div Q) * Carried(droplets, 1)

\* the sediment a record's droplet carries after its step
SedimentAfter(r) == After(r).sediment

\* the ids of the live droplets
Live == {dr.id : dr \in Pool}

\* C12: every single-droplet erosion step conserves mass, in the deposition
\* and in the erosion branch: what the heights lose is what the droplet's
\* sediment gains. Over any step of the app the sum of the heights and of the
\* sediment of the live droplets changes only by the sediment of the droplets
\* that are despawned.
C12_MassConserved ==
    [][ /\ \A r \in log' : r.removed = (F \div Q) * (SedimentAfter(r)' - r.before.sediment)
        /\ Mass' = Mass - (F \div Q) * Carried(SelectSeq(droplets, LAMBDA dr : dr.id \notin Live'), 1)
      ]_vars

\* C12 witness: a droplet deposited part of its sediment on the grid and the
\* droplets still carry sediment, so the mass is not all in the heights
C12_Witness ==
    /\ \E r \in log : r.branch = "deposit" /\ r.amount > 0 /\ r.removed < 0
    /\ Carried(droplets, 1) # 0

====
